---- MODULE Spec2Model ----
(***************************************************************************)
(* NutriCook (src/nutricook/app.py, src/nutricook/database.py).            *)
(*                                                                         *)
(* Texts are sequences of characters: one-character strings, plus the      *)
(* token "U+0130" for LATIN CAPITAL LETTER I WITH DOT ABOVE and "U+0307"   *)
(* for COMBINING DOT ABOVE, the one character of the model whose           *)
(* str.lower() is two characters long.                                     *)
(***************************************************************************)
EXTENDS Integers, Sequences, FiniteSets, TLC

VARIABLES
    pc,               \* position of the pure-function call under check
    assessment_text,  \* calculate_meal_score: its argument
    score,            \* calculate_meal_score: its return value
    estimated_nutrition,  \* apply_rule_engine: its first argument (a dict)
    user_profile,         \* apply_rule_engine: its second argument (a dict)
    rule_result,          \* apply_rule_engine: what the call returned or raised
    response_parts,   \* the pieces the AI response text was put together from
    text_response,    \* parse_multi_recipes: its argument
    recipes,          \* parse_multi_recipes: its return value
    users,            \* database: the rows of table users, in id order
    checked_meals,    \* database: the rows of table checked_meals, in id order
    session,          \* per browser: the user_id of its Flask session, 0 for none
    request,          \* per browser: the request it has in flight and its locals
    checks_started,   \* number of meal checks that got as far as the AI call
    recommendations_list,  \* recommender: the list it hands to the template
    error_message,         \* recommender: the message it hands to the template
    analysis_parts,   \* the pieces the vision model's answer was put together from
    analysis_text,    \* checker: response.text of the vision model
    checker_result    \* checker: meal_name, nutrition_text, assessment_text, assigned_score

vars == <<pc, assessment_text, score, estimated_nutrition, user_profile, rule_result,
          response_parts, text_response, recipes,
          users, checked_meals, session, request, checks_started,
          recommendations_list, error_message,
          analysis_parts, analysis_text, checker_result>>

score_vars == <<assessment_text, score>>
rule_vars == <<estimated_nutrition, user_profile, rule_result>>
parse_vars == <<response_parts, text_response, recipes>>
app_vars == <<users, checked_meals, session, request, checks_started>>
recommend_vars == <<recommendations_list, error_message>>
extract_vars == <<analysis_parts, analysis_text, checker_result>>

\* What a variable holds while the operation it belongs to is not the one run.
NoValue == "NoValue"

ScoreUnused == assessment_text = NoValue /\ score = NoValue
RuleUnused ==
    estimated_nutrition = NoValue /\ user_profile = NoValue /\ rule_result = NoValue
ParseUnused == response_parts = NoValue /\ text_response = NoValue /\ recipes = NoValue
AppUnused ==
    /\ users = NoValue /\ checked_meals = NoValue /\ session = NoValue
    /\ request = NoValue /\ checks_started = 0
RecommendUnused == recommendations_list = NoValue /\ error_message = NoValue
ExtractUnused ==
    analysis_parts = NoValue /\ analysis_text = NoValue /\ checker_result = NoValue


---------------------------------------------------------------------------
(* Characters and the str methods the code uses                            *)

Chars(s) == [i \in 1..Len(s) |-> SubSeq(s, i, i)]

UpperLetters == Chars("ABCDEFGHIJKLMNOPQRSTUVWXYZ")
LowerLetters == Chars("abcdefghijklmnopqrstuvwxyz")

LetterIndex(c) == CHOOSE i \in 1..26 : UpperLetters[i] = c

IsUpper(c) == \E i \in 1..26 : UpperLetters[i] = c

\* str.lower() of one character: a sequence, since U+0130 lowers to two.
lower_char(c) ==
    IF IsUpper(c) THEN <<LowerLetters[LetterIndex(c)]>>
    ELSE IF c = "U+0130" THEN <<"i", "U+0307">>
    ELSE <<c>>

RECURSIVE lower(_)
lower(s) ==
    IF Len(s) = 0 THEN <<>>
    ELSE IF Len(s) = 1 THEN lower_char(s[1])
    ELSE LET h == Len(s) \div 2
         IN lower(SubSeq(s, 1, h)) \o lower(SubSeq(s, h + 1, Len(s)))

\* Python's `sub in text` for strings.
contains(text, sub) ==
    \E i \in 0..(Len(text) - Len(sub)) : SubSeq(text, i + 1, i + Len(sub)) = sub

Min(S) == CHOOSE x \in S : \A y \in S : x <= y
Max(S) == CHOOSE x \in S : \A y \in S : x >= y

\* The whitespace of str.strip() and of the regular expression class \s.
IsSpace(c) == c \in {" ", "\n", "\t", "\r"}

\* str.strip()
strip(s) ==
    LET keep == {i \in 1..Len(s) : ~IsSpace(s[i])}
    IN IF keep = {} THEN <<>> ELSE SubSeq(s, Min(keep), Max(keep))

\* str.lstrip(chars)
lstrip(s, chars) ==
    LET keep == {i \in 1..Len(s) : s[i] \notin chars}
    IN IF keep = {} THEN <<>> ELSE SubSeq(s, Min(keep), Len(s))

\* str.split('\n'): the pieces between the newlines, one more than there are
\* newlines.
split_lines(s) ==
    LET nl == {i \in 1..Len(s) : s[i] = "\n"}
        n == Cardinality(nl)
        pos(k) == IF k = 0 THEN 0
                  ELSE IF k = n + 1 THEN Len(s) + 1
                  ELSE CHOOSE i \in nl : Cardinality({j \in nl : j < i}) = k - 1
    IN [k \in 1..(n + 1) |-> SubSeq(s, pos(k - 1) + 1, pos(k) - 1)]

\* "\n".join(lines)
RECURSIVE join_lines(_)
join_lines(lines) ==
    IF Len(lines) = 0 THEN <<>>
    ELSE IF Len(lines) = 1 THEN lines[1]
    ELSE LET h == Len(lines) \div 2
         IN join_lines(SubSeq(lines, 1, h)) \o <<"\n">>
            \o join_lines(SubSeq(lines, h + 1, Len(lines)))

\* str.startswith(prefix)
startswith(s, prefix) == Len(s) >= Len(prefix) /\ SubSeq(s, 1, Len(prefix)) = prefix

\* A phrase occurs in a text, upper and lower case of a letter being the same
\* letter: the reading of "case-insensitive substring" the claims are checked
\* against.
SameLetter(a, b) ==
    a = b \/ \E i \in 1..26 : {a, b} = {UpperLetters[i], LowerLetters[i]}

Occurs(phrase, text) ==
    \E i \in 0..(Len(text) - Len(phrase)) :
        \A j \in 1..Len(phrase) : SameLetter(text[i + j], phrase[j])

RECURSIVE Concat(_)
Concat(ss) == IF ss = <<>> THEN <<>> ELSE Head(ss) \o Concat(Tail(ss))

RECURSIVE SeqsUpTo(_, _)
SeqsUpTo(S, n) ==
    IF n = 0 THEN {<<>>}
    ELSE LET shorter == SeqsUpTo(S, n - 1)
         IN shorter \cup {Append(s, x) : s \in shorter, x \in S}

---------------------------------------------------------------------------
(* calculate_meal_score, app.py 74-98                                      *)

\* The six keyword tests and their deltas: the sum before the default rule.
keyword_score_elif(text) ==
    IF contains(text, Chars("healthy")) \/ contains(text, Chars("good choice"))
       \/ contains(text, Chars("well-balanced")) THEN 5
    ELSE IF contains(text, Chars("low sugar")) \/ contains(text, Chars("low fat"))
       \/ contains(text, Chars("low sodium")) THEN 2
    ELSE IF contains(text, Chars("high fiber"))
       \/ contains(text, Chars("good source of protein")) THEN 3
    ELSE IF contains(text, Chars("high sugar")) \/ contains(text, Chars("high fat"))
       \/ contains(text, Chars("high sodium")) \/ contains(text, Chars("unhealthy")) THEN -4
    ELSE IF contains(text, Chars("low protein")) \/ contains(text, Chars("low fiber")) THEN -1
    ELSE IF contains(text, Chars("be cautious"))
       \/ contains(text, Chars("consider alternatives")) THEN -2
    ELSE 0

keyword_score(text) ==
    (IF contains(text, Chars("healthy")) \/ contains(text, Chars("good choice"))
        \/ contains(text, Chars("well-balanced")) THEN 5 ELSE 0)
  + (IF contains(text, Chars("low sugar")) \/ contains(text, Chars("low fat"))
        \/ contains(text, Chars("low sodium")) THEN 2 ELSE 0)
  + (IF contains(text, Chars("high fiber"))
        \/ contains(text, Chars("good source of protein")) THEN 3 ELSE 0)
  + (IF contains(text, Chars("high sugar")) \/ contains(text, Chars("high fat"))
        \/ contains(text, Chars("high sodium")) \/ contains(text, Chars("unhealthy"))
     THEN -4 ELSE 0)
  + (IF contains(text, Chars("low protein")) \/ contains(text, Chars("low fiber"))
     THEN -1 ELSE 0)
  + (IF contains(text, Chars("be cautious"))
        \/ contains(text, Chars("consider alternatives")) THEN -2 ELSE 0)

\* The default rule with its length test off by one.
default_score_ge(s, text) == IF s = 0 /\ Len(text) >= 12 THEN 1 ELSE s

\* The default rule for a text in which no keyword test was true.
default_score_unmatched(s, text) ==
    IF keyword_score_elif(text) = 0 /\ Len(text) > 10 THEN 1 ELSE s

\* "if score == 0 and len(text) > 10: score = 1", text being the lowered text.
default_score(s, text) == IF s = 0 /\ Len(text) > 10 THEN 1 ELSE s

\* The score without the rule for a text that matched nothing.
calculate_meal_score_no_default(a_text) == keyword_score(lower(a_text))

calculate_meal_score(a_text) ==
    LET text == lower(a_text)
    IN default_score(keyword_score(text), text)

---------------------------------------------------------------------------
(* apply_rule_engine, app.py 101-156                                       *)
(*                                                                         *)
(* A Python value is a record [type, val]: a number carries its value, a   *)
(* str its characters; of any other value only the type matters.  A dict   *)
(* is a function from the keys it holds.                                   *)

Num(n) == [type |-> "number", val |-> n]
Str(cs) == [type |-> "str", val |-> cs]
PyNone == [type |-> "NoneType", val |-> 0]

\* dict.get(key, default)
dict_get(d, key, default) == IF key \in DOMAIN d THEN d[key] ELSE default

\* `value > threshold` with ">=" in its place.
exceeds_ge(value, threshold) ==
    IF value.type = "number"
    THEN (IF value.val >= threshold THEN "True" ELSE "False")
    ELSE "TypeError"

\* `value > threshold`: between a str (or None) and an int it raises TypeError.
exceeds(value, threshold) ==
    IF value.type = "number"
    THEN (IF value.val > threshold THEN "True" ELSE "False")
    ELSE "TypeError"

\* `word in conditions and value > threshold`: `and` does not evaluate its
\* right operand when the left one is false.
mentions_and_exceeds(conditions, word, value, threshold) ==
    IF contains(conditions, Chars(word)) THEN exceeds(value, threshold) ELSE "False"

RuleNotes ==
    << "High estimated sugar content; may need caution for diabetes management.",
       "High estimated sodium content; consider for hypertension.",
       "This meal appears relatively high in fat.",
       "Good source of dietary fiber.",
       "High protein content." >>

RuleDeltas == << -3, -2, -1, 2, 1 >>

\* The outcome of the five `if` tests in the order the code makes them.
rule_tests(nutrition, conditions) ==
    << mentions_and_exceeds(conditions, "diabetes", dict_get(nutrition, "sugar", Num(0)), 25),
       mentions_and_exceeds(conditions, "hypertension",
                            dict_get(nutrition, "sodium", Num(0)), 800),
       exceeds(dict_get(nutrition, "fat", Num(0)), 35),
       exceeds(dict_get(nutrition, "fiber", Num(0)), 7),
       exceeds(dict_get(nutrition, "protein", Num(0)), 30) >>

RECURSIVE rule_notes(_, _)
rule_notes(tests, k) ==
    IF k = 0 THEN <<>>
    ELSE IF tests[k] = "True" THEN Append(rule_notes(tests, k - 1), RuleNotes[k])
    ELSE rule_notes(tests, k - 1)

RECURSIVE rule_adjustment(_, _)
rule_adjustment(tests, k) ==
    IF k = 0 THEN 0
    ELSE rule_adjustment(tests, k - 1) + (IF tests[k] = "True" THEN RuleDeltas[k] ELSE 0)

\* The five rules as an if/elif chain: only the first rule that holds fires.
run_rules_elif(tests) ==
    IF \E k \in 1..5 : tests[k] = "True"
    THEN LET first == CHOOSE k \in 1..5 :
                          tests[k] = "True" /\ \A j \in 1..(k - 1) : tests[j] # "True"
         IN [raised |-> "None", notes |-> <<RuleNotes[first]>>,
             score_adjustment |-> RuleDeltas[first]]
    ELSE [raised |-> "None", notes |-> <<>>, score_adjustment |-> 0]

\* The five independent `if` statements: every rule whose test is true appends
\* its note and adds its delta.
run_rules(tests) ==
    [raised |-> "None", notes |-> rule_notes(tests, 5),
     score_adjustment |-> rule_adjustment(tests, 5)]

Raised(exception) == [raised |-> exception, notes |-> <<>>, score_adjustment |-> 0]

apply_rule_engine(nutrition, profile) ==
    LET hc == dict_get(profile, "health_conditions", Str(<<>>))
    IN IF hc.type # "str" THEN Raised("AttributeError")   \* no .lower()
       ELSE LET tests == rule_tests(nutrition, lower(hc.val))
            IN IF \E k \in 1..5 : tests[k] = "TypeError"
               THEN Raised("TypeError")
               ELSE run_rules(tests)

---------------------------------------------------------------------------
(* The arguments apply_rule_engine is applied to                           *)

Spread == 1

NutrientKeys == {"sugar", "sodium", "fat", "fiber", "protein"}

Threshold(key) ==
    CASE key = "sugar" -> 25 [] key = "sodium" -> 800 [] key = "fat" -> 35
      [] key = "fiber" -> 7 [] key = "protein" -> 30

Absent == [type |-> "absent", val |-> 0]

\* A key is absent, holds a number around its threshold, or holds a str.
ValueOptions(key) ==
    {Absent, Str(Chars("lots"))}
    \cup {Num(n) : n \in (Threshold(key) - Spread + 1)..(Threshold(key) + Spread)}

MakeDict(choice) == [k \in {k \in DOMAIN choice : choice[k] # Absent} |-> choice[k]]

NutritionGrid ==
    { MakeDict([sugar |-> a, sodium |-> b, fat |-> c, fiber |-> d, protein |-> e]) :
        a \in ValueOptions("sugar"), b \in ValueOptions("sodium"),
        c \in ValueOptions("fat"), d \in ValueOptions("fiber"),
        e \in ValueOptions("protein") }

NutritionExamples ==
    { [sugar |-> Num(30)], [sugar |-> Num(20)], [fiber |-> Num(8), protein |-> Num(35)],
      [calories |-> Num(550), protein |-> Num(25), fat |-> Num(38), carbs |-> Num(40),
       sugar |-> Num(15), sodium |-> Num(900), fiber |-> Num(8)] }

Profiles ==
    { MakeDict([health_conditions |-> h]) :
        h \in { Absent, PyNone, Str(<<>>), Str(Chars("type 2 diabetes")),
                Str(Chars("Diabetes, Hypertension")), Str(Chars("HYPERTENSION")),
                Str(Chars("prediabetic")) } }

InitRule ==
    /\ pc = "start"
    /\ estimated_nutrition \in NutritionGrid \cup NutritionExamples
    /\ user_profile \in Profiles
    /\ rule_result = NoValue
    /\ ScoreUnused
    /\ ParseUnused
    /\ AppUnused
    /\ RecommendUnused
    /\ ExtractUnused

CallRule ==
    /\ pc = "start"
    /\ rule_result' = apply_rule_engine(estimated_nutrition, user_profile)
    /\ pc' = "done"
    /\ UNCHANGED <<estimated_nutrition, user_profile, score_vars, parse_vars, app_vars, recommend_vars, extract_vars>>

NextRule == CallRule

SpecRule == InitRule /\ [][NextRule]_vars

---------------------------------------------------------------------------
(* What the claims about apply_rule_engine say, stated on its arguments    *)

HasConditions == "health_conditions" \in DOMAIN user_profile

WellTypedProfile == HasConditions => user_profile["health_conditions"].type = "str"

WellTypedNutrition ==
    \A k \in NutrientKeys \cap DOMAIN estimated_nutrition :
        estimated_nutrition[k].type = "number"

\* The amount of a nutrient, an absent key counting as 0.
Amount(key) ==
    IF key \in DOMAIN estimated_nutrition THEN estimated_nutrition[key].val ELSE 0

Mentions(word) ==
    HasConditions /\ Occurs(Chars(word), user_profile["health_conditions"].val)

RuleHolds(k) ==
    CASE k = 1 -> Mentions("diabetes") /\ Amount("sugar") > 25
      [] k = 2 -> Mentions("hypertension") /\ Amount("sodium") > 800
      [] k = 3 -> Amount("fat") > 35
      [] k = 4 -> Amount("fiber") > 7
      [] k = 5 -> Amount("protein") > 30

ClaimedDelta(k) == IF RuleHolds(k) THEN << -3, -2, -1, 2, 1 >>[k] ELSE 0

NoteIndex(note) == CHOOSE k \in 1..5 : RuleNotes[k] = note

TypeTwoDiabetes == [health_conditions |-> Str(Chars("type 2 diabetes"))]

\* C5: for well-typed arguments the delta is the sum of the deltas of exactly
\* the rules whose condition holds, there is one note per fired rule, and the
\* notes are in the rule order 1..5; fiber 8 with protein 35 and no conditions
\* gives +3 and two notes.
C5_RulesAreIndependent ==
    (pc = "done" /\ WellTypedNutrition /\ WellTypedProfile) =>
        /\ rule_result.raised = "None"
        /\ rule_result.score_adjustment =
              ClaimedDelta(1) + ClaimedDelta(2) + ClaimedDelta(3)
              + ClaimedDelta(4) + ClaimedDelta(5)
        /\ Len(rule_result.notes) = Cardinality({k \in 1..5 : RuleHolds(k)})
        /\ \A i \in 1..Len(rule_result.notes) :
              /\ \E k \in 1..5 : RuleNotes[k] = rule_result.notes[i]
              /\ \A j \in (i + 1)..Len(rule_result.notes) :
                    NoteIndex(rule_result.notes[i]) < NoteIndex(rule_result.notes[j])
        /\ ( /\ estimated_nutrition = [fiber |-> Num(8), protein |-> Num(35)]
             /\ user_profile \in {<<>>, [health_conditions |-> Str(<<>>)]} )
           => (rule_result.score_adjustment = 3 /\ Len(rule_result.notes) = 2)

C5_Witness ==
    /\ pc = "done"
    /\ estimated_nutrition = [fiber |-> Num(8), protein |-> Num(35)]
    /\ user_profile = [health_conditions |-> Str(<<>>)]
    /\ rule_result.score_adjustment = 3
    /\ rule_result.notes = <<RuleNotes[4], RuleNotes[5]>>

\* C6: for well-typed arguments a rule's note is returned exactly when its
\* threshold is strictly exceeded (an absent key counting as 0) and, for
\* rules 1 and 2, the conditions mention the word in any case; sugar 30 with
\* "type 2 diabetes" gives one note and -3, sugar 20 gives nothing, and an
\* empty estimate gives nothing for every profile.
C6_RulesFireAboveThreshold ==
    (pc = "done" /\ WellTypedNutrition /\ WellTypedProfile) =>
        /\ \A k \in 1..5 :
              (\E i \in 1..Len(rule_result.notes) : rule_result.notes[i] = RuleNotes[k])
                  <=> RuleHolds(k)
        /\ (estimated_nutrition = [sugar |-> Num(30)] /\ user_profile = TypeTwoDiabetes)
              => (rule_result.notes = <<RuleNotes[1]>> /\ rule_result.score_adjustment = -3)
        /\ (estimated_nutrition = [sugar |-> Num(20)] /\ user_profile = TypeTwoDiabetes)
              => (rule_result.notes = <<>> /\ rule_result.score_adjustment = 0)
        /\ estimated_nutrition = <<>>
              => (rule_result.notes = <<>> /\ rule_result.score_adjustment = 0)

C6_Witness ==
    /\ pc = "done"
    /\ estimated_nutrition = [sugar |-> Num(25), fiber |-> Num(8)]
    /\ user_profile = TypeTwoDiabetes
    /\ rule_result.notes = <<RuleNotes[4]>>
    /\ rule_result.score_adjustment = 2

\* C7: a call with a non-numeric nutrient value or a non-text
\* health_conditions value raises instead of returning a result.
C7_MalformedInputIsRejected ==
    (pc = "done" /\ (~WellTypedNutrition \/ ~WellTypedProfile))
        => rule_result.raised # "None"

---------------------------------------------------------------------------
(* The assessment texts calculate_meal_score is applied to                 *)

MaxScoreFrags == 2

ScoreFrags ==
    { Chars("healthy"), Chars("Good Choice"), Chars("low fat"), Chars("LOW SODIUM"),
      Chars("high fiber"), Chars("High Sugar"), Chars("unhealthy"),
      Chars("low protein"), Chars("be cautious"), Chars("Consider Alternatives"),
      Chars("heal"), Chars("thy"), Chars("fine meal"), Chars("ok"), Chars("."),
      Chars(" "), <<"U+0130">>,
      Chars("Healthy, low fat, high fiber but HIGH SUGAR, low protein: be cautious"),
      Chars("Well-balanced, low sugar, good source of protein"),
      Chars("High sodium, low fiber; consider alternatives") }

ScoreTexts == { Concat(fs) : fs \in SeqsUpTo(ScoreFrags, MaxScoreFrags) }

InitScore ==
    /\ pc = "start"
    /\ assessment_text \in ScoreTexts
    /\ score = NoValue
    /\ RuleUnused
    /\ ParseUnused
    /\ AppUnused
    /\ RecommendUnused
    /\ ExtractUnused

CallScore ==
    /\ pc = "start"
    /\ score' = calculate_meal_score(assessment_text)
    /\ pc' = "done"
    /\ UNCHANGED <<assessment_text, rule_vars, parse_vars, app_vars, recommend_vars, extract_vars>>

NextScore == CallScore

SpecScore == InitScore /\ [][NextScore]_vars

---------------------------------------------------------------------------
(* What the claims about calculate_meal_score say, stated on the argument  *)
(* itself: a phrase occurs when some window of the text equals it letter   *)
(* by letter, upper and lower case of a letter being the same letter.      *)

KeywordGroups ==
    << [delta |-> 5,  phrases |-> {"healthy", "good choice", "well-balanced"}],
       [delta |-> 2,  phrases |-> {"low sugar", "low fat", "low sodium"}],
       [delta |-> 3,  phrases |-> {"high fiber", "good source of protein"}],
       [delta |-> -4, phrases |-> {"high sugar", "high fat", "high sodium", "unhealthy"}],
       [delta |-> -1, phrases |-> {"low protein", "low fiber"}],
       [delta |-> -2, phrases |-> {"be cautious", "consider alternatives"}] >>

GroupFires(g, text) == \E p \in KeywordGroups[g].phrases : Occurs(Chars(p), text)

GroupDelta(g, text) == IF GroupFires(g, text) THEN KeywordGroups[g].delta ELSE 0

GroupSum(text) ==
    GroupDelta(1, text) + GroupDelta(2, text) + GroupDelta(3, text)
    + GroupDelta(4, text) + GroupDelta(5, text) + GroupDelta(6, text)

NoKeyword(text) == \A g \in 1..6 : ~GroupFires(g, text)

\* C2: the score is the sum of the deltas of the keyword groups that occur in
\* the text, each counted once and none suppressing another; only a sum of 0
\* is subject to the default rule (0 or 1); "healthy" with "high sugar" gives 1.
C2_DeltasAreSummed ==
    pc = "done" =>
        /\ GroupSum(assessment_text) # 0 => score = GroupSum(assessment_text)
        /\ GroupSum(assessment_text) = 0 => score \in {0, 1}
        /\ ( /\ GroupFires(1, assessment_text) /\ GroupFires(4, assessment_text)
             /\ \A g \in {2, 3, 5, 6} : ~GroupFires(g, assessment_text) )
           => score = 1

C2_Witness ==
    /\ pc = "done"
    /\ assessment_text = Chars("healthy") \o Chars("High Sugar")
    /\ score = 1

\* C3: a text longer than 10 characters with none of the keyword phrases
\* scores 1.
C3_LongPlainTextScoresOne ==
    (pc = "done" /\ Len(assessment_text) > 10 /\ NoKeyword(assessment_text))
        => score = 1

C3_Witness ==
    /\ pc = "done"
    /\ Len(assessment_text) = 11
    /\ NoKeyword(assessment_text)
    /\ score = 1

\* C4: a text of at most 10 characters with no keyword phrase scores 0.
C4_ShortPlainTextScoresZero ==
    (pc = "done" /\ Len(assessment_text) <= 10 /\ NoKeyword(assessment_text))
        => score = 0

\* C25: the score is an integer from -7 to 10, and it is never 0 for a text
\* longer than 10 characters: a text whose deltas cancel to 0 ("low fat" with
\* "be cautious") scores 1, as a text without keywords does.
C25_ScoreIsBoundedAndNeverZeroForLongText ==
    pc = "done" =>
        /\ score \in -7..10
        /\ Len(assessment_text) > 10 => score # 0
        /\ (Len(assessment_text) > 10 /\ GroupSum(assessment_text) = 0) => score = 1
        /\ ( /\ GroupFires(2, assessment_text) /\ GroupFires(6, assessment_text)
             /\ \A g \in {1, 3, 4, 5} : ~GroupFires(g, assessment_text) )
           => score = 1

C25_Witness ==
    /\ pc = "done"
    /\ assessment_text = Chars("low fat") \o Chars("be cautious")
    /\ GroupSum(assessment_text) = 0
    /\ ~NoKeyword(assessment_text)
    /\ score = 1
    /\ calculate_meal_score(Chars("Well-balanced, low sugar, good source of protein")) = 10
    /\ calculate_meal_score(Chars("High sodium, low fiber; consider alternatives")) = -7

---------------------------------------------------------------------------
(* parse_multi_recipes, app.py 163-229                                     *)

\* One pattern character against one text character under re.IGNORECASE: the
\* two cases of a letter match, and so does U+0130 where the pattern has an I.
regex_char_matches(p, c) == SameLetter(p, c) \/ (p \in {"I", "i"} /\ c = "U+0130")

\* The literal `lit` of the pattern matches the text at position i.
literal_at(text, i, lit) ==
    /\ i + Len(lit) - 1 <= Len(text)
    /\ \A j \in 1..Len(lit) : regex_char_matches(lit[j], text[i + j - 1])

\* \s* from position i: greedy, and what follows it in the pattern is never
\* whitespace, so it ends at the first character that is not whitespace.
skip_space(text, i) ==
    Min({j \in i..(Len(text) + 1) : j = Len(text) + 1 \/ ~IsSpace(text[j])})

\* ---\s*<word>\s*--- matched at position i: the position after the match, or
\* 0 when it does not match there.
marker_end(text, i, word) ==
    IF ~literal_at(text, i, Chars("---")) THEN 0
    ELSE LET a == skip_space(text, i + 3)
         IN IF ~literal_at(text, a, word) THEN 0
            ELSE LET b == skip_space(text, a + Len(word))
                 IN IF literal_at(text, b, Chars("---")) THEN b + 3 ELSE 0

RecipeStart == Chars("RECIPE START")
RecipeEnd == Chars("RECIPE END")

\* The positions from which the end marker matches, at or after position g.
end_markers(text, g) == {e \in g..Len(text) : marker_end(text, e, RecipeEnd) # 0}

\* The positions >= from at which the whole pattern matches.
pattern_starts(text, from) ==
    {b \in from..Len(text) :
        /\ marker_end(text, b, RecipeStart) # 0
        /\ end_markers(text, marker_end(text, b, RecipeStart)) # {}}

\* pattern.findall(text_response): the groups (.*?) of the successive
\* non-overlapping matches, each the leftmost from where the last one ended,
\* its group the shortest that reaches an end marker.
RECURSIVE findall(_, _)
findall(text, from) ==
    IF pattern_starts(text, from) = {} THEN <<>>
    ELSE LET b == Min(pattern_starts(text, from))
             g == marker_end(text, b, RecipeStart)
             e == Min(end_markers(text, g))
         IN <<SubSeq(text, g, e - 1)>> \o findall(text, marker_end(text, e, RecipeEnd))

\* key_map, in the order its keys were inserted.
key_map ==
    << [key_text |-> "meal name",            key_json |-> "name"],
       [key_text |-> "youtube search terms", key_json |-> "youtube_search_terms"],
       [key_text |-> "preparation time",     key_json |-> "prep_time"],
       [key_text |-> "taste profile",        key_json |-> "taste"],
       [key_text |-> "ingredients",          key_json |-> "ingredients"],
       [key_text |-> "instructions",         key_json |-> "instructions"],
       [key_text |-> "estimated nutrition",  key_json |-> "nutrition"] >>

\* The test without .lower().
line_has_key_as_written(line, k) == startswith(line, Chars(key_map[k].key_text) \o <<":">>)

\* line.lower().startswith(key_text + ":") for the k-th key.
line_has_key(line, k) == startswith(lower(line), Chars(key_map[k].key_text) \o <<":">>)

\* The first key of key_map the line starts with, 0 when there is none.
found_key(line) ==
    IF \E k \in 1..Len(key_map) : line_has_key(line, k)
    THEN Min({k \in 1..Len(key_map) : line_has_key(line, k)})
    ELSE 0

\* d[key] = value
dict_set(d, key, value) ==
    [x \in DOMAIN d \cup {key} |-> IF x = key THEN value ELSE d[x]]

\* recipe_data[current_key] = "\n".join(current_value).strip(), if current_key
flush(st) ==
    IF st.current_key = "None" THEN st.recipe_data
    ELSE dict_set(st.recipe_data, st.current_key, strip(join_lines(st.current_value)))

\* One turn of `for line in lines`.
parse_line(st, raw_line) ==
    LET line == strip(raw_line)
        k == found_key(line)
    IN IF line = <<>> THEN st
       ELSE IF k # 0
       THEN [recipe_data |-> flush(st),
             current_key |-> key_map[k].key_json,
             current_value |->
                 <<strip(SubSeq(line, Len(key_map[k].key_text) + 2, Len(line)))>>]
       ELSE IF st.current_key # "None"
       THEN [st EXCEPT !.current_value = Append(@, line)]
       ELSE st

RECURSIVE parse_lines(_, _)
parse_lines(lines, n) ==
    IF n = 0 THEN [recipe_data |-> <<>>, current_key |-> "None", current_value |-> <<>>]
    ELSE parse_line(parse_lines(lines, n - 1), lines[n])

\* The loop over the lines of a block and the flush after it.
parse_block(match) ==
    LET lines == split_lines(strip(match))
    IN flush(parse_lines(lines, Len(lines)))

\* recipe_data.get(key): true when the key is there with a non-empty text.
truthy(d, key) == key \in DOMAIN d /\ d[key] # <<>>

\* The acceptance test asking for a name only.
accepted_name_only(d) == truthy(d, "name")

\* `if recipe_data.get("name") and (recipe_data.get("ingredients") or
\* recipe_data.get("instructions"))`
accepted(d) == truthy(d, "name") /\ (truthy(d, "ingredients") \/ truthy(d, "instructions"))

\* The list comprehension without its lstrip.
clean_lines_keep(field, chars) ==
    LET lines == split_lines(field)
    IN join_lines([k \in 1..Len(lines) |-> strip(lines[k])])

\* "\n".join([l.strip().lstrip(chars) for l in field.split('\n')])
clean_lines(field, chars) ==
    LET lines == split_lines(field)
    IN join_lines([k \in 1..Len(lines) |-> lstrip(strip(lines[k]), chars)])

ListMarkers == {"-", "*", " "}
StepMarkers == {"0", "1", "2", "3", "4", "5", "6", "7", "8", "9", ".", "*", " "}

\* urllib.parse.quote_plus of one character: letters, digits and _.-~ stay, a
\* space becomes +, anything else is the %XX of its UTF-8 bytes.
PercentCode ==
    [c \in {"\n", "\t", "\r", "!", "#", "$", "%", "&", "'", "(", ")", "*", "+", ",", "/",
            ":", ";", "=", "?", "@", "[", "]", "U+0130", "U+0307"} |->
        CASE c = "\n" -> "%0A" [] c = "\t" -> "%09" [] c = "\r" -> "%0D"
          [] c = "!" -> "%21" [] c = "#" -> "%23" [] c = "$" -> "%24" [] c = "%" -> "%25"
          [] c = "&" -> "%26" [] c = "'" -> "%27" [] c = "(" -> "%28" [] c = ")" -> "%29"
          [] c = "*" -> "%2A" [] c = "+" -> "%2B" [] c = "," -> "%2C" [] c = "/" -> "%2F"
          [] c = ":" -> "%3A" [] c = ";" -> "%3B" [] c = "=" -> "%3D" [] c = "?" -> "%3F"
          [] c = "@" -> "%40" [] c = "[" -> "%5B" [] c = "]" -> "%5D"
          [] c = "U+0130" -> "%C4%B0" [] c = "U+0307" -> "%CC%87"]

quote_char(c) ==
    IF c = " " THEN <<"+">>
    ELSE IF c \in DOMAIN PercentCode THEN Chars(PercentCode[c])
    ELSE <<c>>

RECURSIVE quote_plus(_)
quote_plus(s) ==
    IF Len(s) = 0 THEN <<>>
    ELSE IF Len(s) = 1 THEN quote_char(s[1])
    ELSE LET h == Len(s) \div 2
         IN quote_plus(SubSeq(s, 1, h)) \o quote_plus(SubSeq(s, h + 1, Len(s)))

SearchEndpoint == Chars("https://www.youtube.com/results?search_query=")

\* The clean-up with `if "youtube_search_terms" in recipe_data` for the URL.
post_process_url_for_any_terms(d) ==
    LET d1 == IF truthy(d, "ingredients")
              THEN dict_set(d, "ingredients", clean_lines(d["ingredients"], ListMarkers))
              ELSE d
        d2 == IF truthy(d1, "instructions")
              THEN dict_set(d1, "instructions", clean_lines(d1["instructions"], StepMarkers))
              ELSE d1
    IN IF "youtube_search_terms" \in DOMAIN d2
       THEN dict_set(d2, "youtube_search_url",
                     SearchEndpoint \o quote_plus(d2["youtube_search_terms"]))
       ELSE d2

\* The clean-up of an accepted block: lines 208-218.
post_process(d) ==
    LET d1 == IF truthy(d, "ingredients")
              THEN dict_set(d, "ingredients", clean_lines(d["ingredients"], ListMarkers))
              ELSE d
        d2 == IF truthy(d1, "instructions")
              THEN dict_set(d1, "instructions", clean_lines(d1["instructions"], StepMarkers))
              ELSE d1
    IN IF truthy(d2, "youtube_search_terms")
       THEN dict_set(d2, "youtube_search_url",
                     SearchEndpoint \o quote_plus(d2["youtube_search_terms"]))
       ELSE d2

\* `for match in matches`: the accepted blocks, cleaned up, in order.
RECURSIVE collect(_, _)
collect(matches, n) ==
    IF n = 0 THEN <<>>
    ELSE LET d == parse_block(matches[n])
         IN IF accepted(d) THEN Append(collect(matches, n - 1), post_process(d))
            ELSE collect(matches, n - 1)

ParseFailedName == Chars("Recipe Details (Parsing Failed)")

\* The fallback with 51 in place of 50.
fallback_gt51(found, text) ==
    IF found = <<>> /\ Len(text) > 51
    THEN <<[name |-> ParseFailedName, instructions |-> text]>>
    ELSE found

\* The fallback without its length test.
fallback_any_length(found, text) ==
    IF found = <<>>
    THEN <<[name |-> ParseFailedName, instructions |-> text]>>
    ELSE found

\* The fallback keeping the first 50 characters of the text only.
fallback_truncated(found, text) ==
    IF found = <<>> /\ Len(text) > 50
    THEN <<[name |-> ParseFailedName, instructions |-> SubSeq(text, 1, 50)]>>
    ELSE found

\* `if not recipes and len(text_response) > 50: return [<fallback record>]`
fallback(found, text) ==
    IF found = <<>> /\ Len(text) > 50
    THEN <<[name |-> ParseFailedName, instructions |-> text]>>
    ELSE found

\* The list `recipes` when the loop over the matches has ended.
accepted_recipes(text) ==
    LET matches == findall(text, 1)
    IN collect(matches, Len(matches))

parse_multi_recipes(text) == fallback(accepted_recipes(text), text)

---------------------------------------------------------------------------
(* The AI responses parse_multi_recipes is applied to: texts put together  *)
(* from recipe blocks in the format the prompt asks for (app.py 381-396),  *)
(* blocks that break it, and text outside blocks.                          *)

MaxParts == 2

Block(fields) == [kind |-> "block", text |-> <<>>] @@ fields

Text(t) ==
    [kind |-> "text", text |-> t, start |-> <<>>, end |-> <<>>, name_label |-> <<>>,
     name |-> <<>>, terms |-> <<>>, ingredients |-> <<>>, instructions |-> <<>>,
     tail |-> <<>>, plain |-> <<>>]

ResponseParts ==
    <<
       \* 1: the format the prompt asks for, every field given
       Block([start |-> Chars("--- RECIPE START ---"),
              end |-> Chars("--- RECIPE END ---"),
              name_label |-> Chars("Meal Name:"),
              name |-> Chars("Egg Soup"),
              terms |-> Chars("easy egg soup"),
              ingredients |-> Chars("- 2 eggs\n* salt"),
              instructions |-> Chars("1. Mix well\n2. Boil 10 min"),
              tail |-> Chars("Estimated Nutrition (per serving, approximate): ~450 kcal"),
              plain |-> <<>>]),
       \* 2: tight lower-case markers, ingredients only, the label of the search
       \* terms with nothing after it
       Block([start |-> Chars("---recipe start---"),
              end |-> Chars("---recipe end---"),
              name_label |-> Chars("meal name:"),
              name |-> Chars("Pie"),
              terms |-> <<>>,
              ingredients |-> Chars("-- flour\n - 1 apple"),
              instructions |-> <<>>,
              tail |-> <<>>,
              plain |-> Chars("YouTube Search Terms:")]),
       \* 3: upper-case label, instructions only, search terms with characters to encode
       Block([start |-> Chars("---  Recipe Start\n---"),
              end |-> Chars("---\tRECIPE END ---"),
              name_label |-> Chars("MEAL NAME:"),
              name |-> Chars("Stew ") \o <<"U+0130">>,
              terms |-> Chars("stew & rice: how-to"),
              ingredients |-> <<>>,
              instructions |-> Chars("10. .5 cups water\n* 3) stir"),
              tail |-> Chars("Estimated Nutrition: 300 kcal"),
              plain |-> <<>>]),
       \* 4: a block whose name is empty
       Block([start |-> Chars("--- RECIPE START ---"),
              end |-> Chars("--- RECIPE END ---"),
              name_label |-> Chars("Meal Name:"),
              name |-> <<>>,
              terms |-> Chars("no name"),
              ingredients |-> Chars("- rice"),
              instructions |-> Chars("1. Cook"),
              tail |-> <<>>,
              plain |-> <<>>]),
       \* 5: a block without any label
       Block([start |-> Chars("---RECIPE START---"),
              end |-> Chars("---RECIPE END---"),
              name_label |-> <<>>,
              name |-> <<>>,
              terms |-> <<>>,
              ingredients |-> <<>>,
              instructions |-> <<>>,
              tail |-> <<>>,
              plain |-> Chars("x")]),
       \* 6: a block with a name only
       Block([start |-> Chars("--- RECIPE START ---"),
              end |-> Chars("--- RECIPE END ---"),
              name_label |-> Chars("Meal Name:"),
              name |-> Chars("Toast"),
              terms |-> <<>>,
              ingredients |-> <<>>,
              instructions |-> <<>>,
              tail |-> <<>>,
              plain |-> <<>>]),
       \* 7: a block that is never ended
       Block([start |-> Chars("--- RECIPE START ---"),
              end |-> <<>>,
              name_label |-> Chars("Meal Name:"),
              name |-> Chars("Rice"),
              terms |-> <<>>,
              ingredients |-> Chars("- rice"),
              instructions |-> <<>>,
              tail |-> <<>>,
              plain |-> <<>>]),
       \* 8: a short block that is never ended
       Block([start |-> Chars("---RECIPE START---"),
              end |-> <<>>,
              name_label |-> Chars("Meal Name:"),
              name |-> Chars("Tea"),
              terms |-> <<>>,
              ingredients |-> <<>>,
              instructions |-> <<>>,
              tail |-> <<>>,
              plain |-> <<>>]),
       \* 9: 51 characters
       Text(Chars("Here are three recipes that fit your macro targets.")),
       \* 10: 49 characters
       Text(Chars("Sorry, I could not find recipes for this request.")),
       Text(Chars(".")),
       Text(Chars("\n")),
       \* 13: lines before the first label, an indented label, a nutrition line
       \* that is no label, one that is, and lines after it
       Block([start |-> Chars("--- RECIPE START ---"),
              end |-> Chars("--- RECIPE END ---"),
              name_label |-> Chars("\tMeal name:"),
              name |-> Chars("Dal"),
              terms |-> <<>>,
              ingredients |-> Chars("- lentils"),
              instructions |-> Chars("1. Boil\n\n2. Serve"),
              tail |-> Chars("Estimated Nutrition (per serving): ~450 kcal\n")
                         \o Chars("  estimated NUTRITION:200 kcal \n\nfat 3 g\nNutrition: none"),
              plain |-> Chars("Here you go\nServes: 2")]) >>

\* A section of a block: its label line and its content, nothing when empty.
Section(label, content) ==
    IF content = <<>> THEN <<>> ELSE Chars(label) \o content \o <<"\n">>

RenderPart(p) ==
    IF p.kind = "text" THEN p.text
    ELSE p.start \o <<"\n">>
         \o Section("", p.plain)
         \o (IF p.name_label = <<>> THEN <<>>
             ELSE p.name_label \o <<" ">> \o p.name \o <<"\n">>)
         \o Section("YouTube Search Terms: ", p.terms)
         \o Section("Ingredients:\n", p.ingredients)
         \o Section("Instructions:\n", p.instructions)
         \o Section("", p.tail)
         \o p.end

Render(parts) == Concat([i \in 1..Len(parts) |-> RenderPart(ResponseParts[parts[i]])])

InitParse ==
    /\ pc = "start"
    /\ response_parts \in SeqsUpTo(1..Len(ResponseParts), MaxParts)
    /\ text_response = Render(response_parts)
    /\ recipes = NoValue
    /\ ScoreUnused
    /\ RuleUnused
    /\ AppUnused
    /\ RecommendUnused
    /\ ExtractUnused

CallParse ==
    /\ pc = "start"
    /\ recipes' = parse_multi_recipes(text_response)
    /\ pc' = "done"
    /\ UNCHANGED <<response_parts, text_response, score_vars, rule_vars, app_vars, recommend_vars, extract_vars>>

\* A second call, on the instructions of the fallback record the first returned.
CallParseAgain ==
    /\ pc = "done"
    /\ Len(recipes) = 1
    /\ recipes[1]["name"] = ParseFailedName
    /\ text_response' = recipes[1]["instructions"]
    /\ recipes' = parse_multi_recipes(recipes[1]["instructions"])
    /\ pc' = "again"
    /\ UNCHANGED <<response_parts, score_vars, rule_vars, app_vars, recommend_vars, extract_vars>>

NextParse == CallParse \/ CallParseAgain

SpecParse == InitParse /\ [][NextParse]_vars

---------------------------------------------------------------------------
(* What the claims about parse_multi_recipes say, stated on the parts the  *)
(* response was put together from                                          *)

Part(i) == ResponseParts[response_parts[i]]

IsBlock(p) == p.kind = "block"

\* A block the format is kept in: both markers, a name, and ingredients or
\* instructions.
WellFormedBlock(p) ==
    /\ p.kind = "block" /\ p.end # <<>>
    /\ p.name_label # <<>> /\ p.name # <<>>
    /\ (p.ingredients # <<>> \/ p.instructions # <<>>)

\* The blocks of the response, in order of appearance.
Blocks == SelectSeq([i \in 1..Len(response_parts) |-> Part(i)], IsBlock)

\* At least one block, every block well-formed; text may stand between them.
WellFormedResponse ==
    /\ Blocks # <<>>
    /\ \A i \in 1..Len(Blocks) : WellFormedBlock(Blocks[i])

\* No line of the field starts with one of the characters.
NoLineStartsWith(field, chars) ==
    \A q \in 1..Len(field) : (q = 1 \/ field[q - 1] = "\n") => field[q] \notin chars

\* The response has no marker at all or only blocks that are never ended, or
\* every block of it is ended and fails the acceptance test.
NoRecipeByConstruction ==
    \/ \A i \in 1..Len(response_parts) : Part(i).kind = "text" \/ Part(i).end = <<>>
    \/ \A i \in 1..Len(response_parts) :
          Part(i).kind = "text" \/ (Part(i).end # <<>> /\ ~WellFormedBlock(Part(i)))

FallbackRecord ==
    [name |-> Chars("Recipe Details (Parsing Failed)"), instructions |-> text_response]

\* C8: a response of n well-formed blocks gives n records in the order of the
\* blocks, no ingredient line starting with '-', '*' or a space, no instruction
\* line starting with a digit, '.', '*' or a space, and a non-empty
\* youtube_search_url wherever search terms were given.
C8_WellFormedBlocksAreParsed ==
    (pc = "done" /\ WellFormedResponse) =>
        /\ Len(recipes) = Len(Blocks)
        /\ \A i \in 1..Len(Blocks) :
              /\ recipes[i]["name"] = Blocks[i].name
              /\ "ingredients" \in DOMAIN recipes[i] =>
                    NoLineStartsWith(recipes[i]["ingredients"], {"-", "*", " "})
              /\ "instructions" \in DOMAIN recipes[i] =>
                    NoLineStartsWith(recipes[i]["instructions"],
                        {"0", "1", "2", "3", "4", "5", "6", "7", "8", "9", ".", "*", " "})
              /\ Blocks[i].ingredients # <<>> => "ingredients" \in DOMAIN recipes[i]
              /\ Blocks[i].terms # <<>> =>
                    /\ "youtube_search_url" \in DOMAIN recipes[i]
                    /\ recipes[i]["youtube_search_url"] # <<>>

C8_Witness ==
    /\ pc = "done"
    /\ response_parts = <<1, 2>>
    /\ Len(recipes) = 2
    /\ recipes[1]["ingredients"] = Chars("2 eggs\nsalt")
    /\ recipes[2]["name"] = Chars("Pie")

\* C9: a text longer than 50 characters from which no recipe is accepted gives
\* exactly one record, with the parse-failure name and the raw text as its
\* instructions.
C9_LongUnparsedTextFallsBack ==
    (pc = "done" /\ Len(text_response) > 50) =>
        /\ NoRecipeByConstruction => recipes = <<FallbackRecord>>
        /\ accepted_recipes(text_response) = <<>> => recipes = <<FallbackRecord>>

C9_Witness ==
    /\ pc = "done"
    /\ response_parts = <<4>>
    /\ Len(text_response) > 50
    /\ recipes = <<FallbackRecord>>

\* C10: a text shorter than 50 characters with no valid block gives the empty
\* sequence.
C10_ShortUnparsedTextGivesNothing ==
    (pc = "done" /\ Len(text_response) < 50) =>
        /\ NoRecipeByConstruction => recipes = <<>>
        /\ accepted_recipes(text_response) = <<>> => recipes = <<>>

C10_Witness ==
    /\ pc = "done"
    /\ response_parts = <<5, 11>>
    /\ Len(text_response) = 38
    /\ recipes = <<>>

\* C11: when parse_multi_recipes returned the fallback record, the call on that
\* record's instructions returns the same fallback record again: the same
\* sentinel name, the same instructions.
C11_FallbackRoundTrip ==
    [][pc' = "again" =>
          /\ recipes' = recipes
          /\ recipes'[1]["name"] = Chars("Recipe Details (Parsing Failed)")
          /\ recipes'[1]["instructions"] = text_response]_vars

C11_Witness ==
    /\ pc = "again"
    /\ response_parts = <<4>>
    /\ recipes = <<FallbackRecord>>

\* Every block of the response has its end marker, so the blocks the pattern
\* finds are the blocks the response was put together from.
EveryBlockEnded ==
    \A i \in 1..Len(response_parts) : Part(i).kind = "text" \/ Part(i).end # <<>>

NonEmptyField(d, key) == key \in DOMAIN d /\ Len(d[key]) > 0

\* A parsed block with a name and with ingredients or instructions.
Qualifies(d) ==
    /\ NonEmptyField(d, "name")
    /\ NonEmptyField(d, "ingredients") \/ NonEmptyField(d, "instructions")

QualifyingMatch(match) == Qualifies(parse_block(match))

\* What each block gives when it is the whole response.
RecordsOfEachBlock ==
    [i \in 1..Len(Blocks) |-> accepted_recipes(RenderPart(Blocks[i]))]

\* C12: a marker-delimited block gives a record if and only if its parsed name is
\* non-empty and its parsed ingredients or instructions are non-empty; any other
\* block is dropped, and the records of the other blocks are what they would be
\* without it.
C12_BlockAcceptedIffNamedAndFilled ==
    pc = "done" =>
        LET found == accepted_recipes(text_response)
            matches == findall(text_response, 1)
        IN /\ Len(found) = Len(SelectSeq(matches, QualifyingMatch))
           /\ found # <<>> => recipes = found
           /\ found = <<>> => recipes \in {<<>>, <<FallbackRecord>>}
           /\ EveryBlockEnded =>
                 /\ \A i \in 1..Len(Blocks) :
                       Len(RecordsOfEachBlock[i])
                           = IF WellFormedBlock(Blocks[i]) THEN 1 ELSE 0
                 /\ found = Concat(RecordsOfEachBlock)
                 /\ LET kept == SelectSeq(Blocks, WellFormedBlock)
                    IN /\ Len(found) = Len(kept)
                       /\ \A i \in 1..Len(kept) : found[i]["name"] = kept[i].name

C12_Witness ==
    /\ pc = "done"
    /\ response_parts = <<6, 2>>
    /\ ~WellFormedBlock(Part(1))
    /\ Len(recipes) = 1
    /\ recipes[1]["name"] = Chars("Pie")

\* The seven labels and the field each one opens.
FieldOfLabel ==
    [l \in {"meal name", "youtube search terms", "preparation time", "taste profile",
            "ingredients", "instructions", "estimated nutrition"} |->
        CASE l = "meal name" -> "name"
          [] l = "youtube search terms" -> "youtube_search_terms"
          [] l = "preparation time" -> "prep_time"
          [] l = "taste profile" -> "taste"
          [] l = "ingredients" -> "ingredients"
          [] l = "instructions" -> "instructions"
          [] l = "estimated nutrition" -> "nutrition"]

\* The trimmed line begins, case apart, with the label and a colon right after.
BeginsWithLabel(line, l) ==
    /\ Len(line) > Len(l)
    /\ \A j \in 1..Len(l) : SameLetter(line[j], Chars(l)[j])
    /\ line[Len(l) + 1] = ":"

IsLabelLine(line) == \E l \in DOMAIN FieldOfLabel : BeginsWithLabel(line, l)

LabelOf(line) == CHOOSE l \in DOMAIN FieldOfLabel : BeginsWithLabel(line, l)

NotBlank(line) == line # <<>>

\* The lines of a block that are not blank, trimmed, in order.
TrimmedLines(match) ==
    LET lines == split_lines(match)
    IN SelectSeq([i \in 1..Len(lines) |-> strip(lines[i])], NotBlank)

\* The fields of a block as the format describes them: a field for every label
\* that has a line; its text the rest of its last label line and the lines up
\* to the next label line, joined by newlines.
FieldsOf(match) ==
    LET L == TrimmedLines(match)
        opens(i, k) == IsLabelLine(L[i]) /\ FieldOfLabel[LabelOf(L[i])] = k
        opened == {k \in {FieldOfLabel[l] : l \in DOMAIN FieldOfLabel} :
                      \E i \in 1..Len(L) : opens(i, k)}
        last(k) == Max({i \in 1..Len(L) : opens(i, k)})
        stop(i) == Min({j \in (i + 1)..(Len(L) + 1) : j = Len(L) + 1 \/ IsLabelLine(L[j])})
        rest(i) == strip(SubSeq(L[i], Len(LabelOf(L[i])) + 2, Len(L[i])))
        content(i) == <<rest(i)>> \o SubSeq(L, i + 1, stop(i) - 1)
    IN [k \in opened |-> strip(join_lines(content(last(k))))]

\* The fields of a record that the clean-up of an accepted block leaves alone.
FieldsLeftAlone == {"name", "youtube_search_terms", "prep_time", "taste", "nutrition"}

\* C23: in a block a line opens a field exactly when, trimmed, it begins (case
\* apart) with one of the seven labels and a colon; the rest of the line is the
\* field's first content line, every other non-blank line is added to the open
\* field in order, joined by newlines, and the lines before the first label are
\* dropped.
C23_LinesFillTheOpenField ==
    pc = "done" =>
        LET matches == findall(text_response, 1)
            qualifying == SelectSeq(matches, QualifyingMatch)
        IN /\ \A i \in 1..Len(matches) : parse_block(matches[i]) = FieldsOf(matches[i])
           /\ qualifying # <<>> =>
                 /\ Len(recipes) = Len(qualifying)
                 /\ \A i \in 1..Len(qualifying) : \A k \in FieldsLeftAlone :
                       /\ k \in DOMAIN recipes[i] <=> k \in DOMAIN FieldsOf(qualifying[i])
                       /\ k \in DOMAIN recipes[i] => recipes[i][k] = FieldsOf(qualifying[i])[k]

C23_Witness ==
    /\ pc = "done"
    /\ response_parts = <<13, 1>>
    /\ Len(recipes) = 2
    /\ DOMAIN recipes[1] = {"name", "ingredients", "instructions", "nutrition"}
    /\ recipes[1]["name"] = Chars("Dal")
    /\ recipes[1]["instructions"]
          = Chars("Boil\nServe\nEstimated Nutrition (per serving): ~450 kcal")
    /\ recipes[1]["nutrition"] = Chars("200 kcal\nfat 3 g\nNutrition: none")
    /\ "nutrition" \notin DOMAIN recipes[2]
    /\ recipes[2]["instructions"]
          = Chars("Mix well\nBoil 10 min\n")
              \o Chars("Estimated Nutrition (per serving, approximate): ~450 kcal")

\* The search terms of a block, empty when it has no such field.
SearchTermsOf(match) ==
    IF "youtube_search_terms" \in DOMAIN FieldsOf(match)
    THEN FieldsOf(match)["youtube_search_terms"]
    ELSE <<>>

\* A character of search terms in a query string: letters, digits and - stay, a
\* space is written +, & is %26 and : is %3A.
InQuery(c) ==
    CASE c = " " -> Chars("+")
      [] c = "&" -> Chars("%26")
      [] c = ":" -> Chars("%3A")
      [] c \notin {" ", "&", ":"} -> <<c>>

UrlEncoded(terms) == Concat([i \in 1..Len(terms) |-> InQuery(terms[i])])

\* C24: an accepted recipe has a youtube_search_url if and only if the search
\* terms of its block are non-empty, and the URL is the fixed endpoint followed
\* by the URL-encoded terms; the fallback record has no youtube_search_url.
C24_SearchUrlIffSearchTerms ==
    pc = "done" =>
        LET qualifying == SelectSeq(findall(text_response, 1), QualifyingMatch)
        IN /\ qualifying # <<>> =>
                 /\ Len(recipes) = Len(qualifying)
                 /\ \A i \in 1..Len(qualifying) :
                       /\ "youtube_search_url" \in DOMAIN recipes[i]
                             <=> SearchTermsOf(qualifying[i]) # <<>>
                       /\ "youtube_search_url" \in DOMAIN recipes[i] =>
                             recipes[i]["youtube_search_url"]
                                = Chars("https://www.youtube.com/results?search_query=")
                                    \o UrlEncoded(SearchTermsOf(qualifying[i]))
           /\ (qualifying = <<>> /\ recipes # <<>>) =>
                 /\ Len(recipes) = 1
                 /\ recipes[1]["name"] = Chars("Recipe Details (Parsing Failed)")
                 /\ "youtube_search_url" \notin DOMAIN recipes[1]

C24_Witness ==
    /\ pc = "done"
    /\ response_parts = <<3, 2>>
    /\ Len(recipes) = 2
    /\ recipes[1]["youtube_search_url"]
          = Chars("https://www.youtube.com/results?search_query=stew+%26+rice%3A+how-to")
    /\ recipes[2]["youtube_search_terms"] = <<>>
    /\ "youtube_search_url" \notin DOMAIN recipes[2]

---------------------------------------------------------------------------
(* The recommender's use of parse_multi_recipes, app.py 400-410            *)

\* The recommender handing on what the parser returned, nothing put in its place.
raw_response_fallback_none(list, text) == list

\* `if not recommendations_list and response.text:` the raw text as one record
raw_response_fallback(list, text) ==
    IF list = <<>> /\ text # <<>>
    THEN <<[name |-> Chars("Raw AI Response"), instructions |-> text]>>
    ELSE list

InitRecommend ==
    /\ pc = "start"
    /\ response_parts \in SeqsUpTo(1..Len(ResponseParts), MaxParts)
    /\ text_response = Render(response_parts)
    /\ recipes = NoValue
    /\ recommendations_list = <<>>
    /\ error_message = "None"
    /\ ScoreUnused
    /\ RuleUnused
    /\ AppUnused
    /\ ExtractUnused

\* POST /recommender from the call of the text model on; the call, or reading
\* response.text, may raise.
RecommenderPost(ai_raises) ==
    /\ pc = "start"
    /\ IF ai_raises
       THEN /\ recommendations_list' = <<>>
            /\ error_message' = "Could not get recommendations from AI"
       ELSE LET parsed == parse_multi_recipes(text_response)
            IN /\ recommendations_list' = raw_response_fallback(parsed, text_response)
               /\ error_message' =
                     IF parsed = <<>> /\ text_response # <<>>
                     THEN "Could not fully parse recipes from AI response. Displaying raw text."
                     ELSE "None"
    /\ pc' = "rendered"
    /\ UNCHANGED <<response_parts, text_response, recipes, score_vars, rule_vars, app_vars, extract_vars>>

NextRecommend == \E ai_raises \in BOOLEAN : RecommenderPost(ai_raises)

SpecRecommend == InitRecommend /\ [][NextRecommend]_vars

\* The text model answered: the page has no message of a failed call.
AIAnswered == error_message # "Could not get recommendations from AI"

\* C13: for every non-empty AI response text, of any length, the recommender
\* hands a non-empty list to the template, and when no recipe was parsed the
\* list is one record whose instructions are the raw response text.
C13_ResponseIsNeverLost ==
    (pc = "rendered" /\ AIAnswered /\ text_response # <<>>) =>
        /\ recommendations_list # <<>>
        /\ (accepted_recipes(text_response) = <<>> \/ NoRecipeByConstruction) =>
              /\ Len(recommendations_list) = 1
              /\ recommendations_list[1]["instructions"] = text_response

C13_Witness ==
    /\ pc = "rendered"
    /\ AIAnswered
    /\ response_parts = <<8>>
    /\ Len(text_response) \in 1..50
    /\ recommendations_list =
          <<[name |-> Chars("Raw AI Response"), instructions |-> text_response]>>

---------------------------------------------------------------------------
(* The three-field extraction of the checker, app.py 504-513               *)

\* re.search of a heading: the first position where it matches, 0 for none.
heading_start(text, heading) ==
    IF \E i \in 1..Len(text) : literal_at(text, i, heading)
    THEN Min({i \in 1..Len(text) : literal_at(text, i, heading)})
    ELSE 0

\* Where the group starts: after the heading and the \s*\n* that follows it.
group_start(text, heading) ==
    skip_space(text, heading_start(text, heading) + Len(heading))

MealNameHeading == Chars("## Meal Name")
NutritionHeading == Chars("## Estimated Nutrition")
AssessmentHeading == Chars("## Healthiness Assessment")

\* "## Meal Name\s*\n*(.*)": the group ends before the next newline.
meal_name_of(text) ==
    IF heading_start(text, MealNameHeading) = 0
    THEN Chars("Unknown Meal (Parsing Failed)")
    ELSE LET a == group_start(text, MealNameHeading)
             e == Min({j \in a..(Len(text) + 1) : j = Len(text) + 1 \/ text[j] = "\n"})
         IN strip(SubSeq(text, a, e - 1))

\* "## Estimated Nutrition\s*\n*(.*?)(?=\n## Healthiness Assessment|\Z)": the
\* group is the shortest that ends before a newline and the assessment heading,
\* or at the end of the text.
nutrition_of(text) ==
    IF heading_start(text, NutritionHeading) = 0
    THEN Chars("Nutrition info could not be extracted.")
    ELSE LET a == group_start(text, NutritionHeading)
             e == Min({j \in a..(Len(text) + 1) :
                          \/ j = Len(text) + 1
                          \/ literal_at(text, j, <<"\n">> \o AssessmentHeading)})
         IN strip(SubSeq(text, a, e - 1))

\* The assessment with the empty text, not the placeholder, for no match.
assessment_of_no_placeholder(text) ==
    IF heading_start(text, AssessmentHeading) = 0
    THEN <<>>
    ELSE strip(SubSeq(text, group_start(text, AssessmentHeading), Len(text)))

\* "## Healthiness Assessment\s*\n*(.*)" with DOTALL: the group is the rest.
assessment_of(text) ==
    IF heading_start(text, AssessmentHeading) = 0
    THEN Chars("Assessment could not be extracted.")
    ELSE strip(SubSeq(text, group_start(text, AssessmentHeading), Len(text)))

---------------------------------------------------------------------------
(* The checker's extraction and score as one call, app.py 504-516, and the *)
(* answers of the vision model it is applied to                            *)

\* The three fields taken with .group(1) of whatever re.search returned: None
\* has no group, which is an AttributeError.
checker_extract_unguarded(text) ==
    IF \/ heading_start(text, MealNameHeading) = 0
       \/ heading_start(text, NutritionHeading) = 0
       \/ heading_start(text, AssessmentHeading) = 0
    THEN [raised |-> "AttributeError", meal_name |-> <<>>, nutrition_text |-> <<>>,
          assessment_text |-> <<>>, assigned_score |-> 0]
    ELSE [raised |-> "None",
          meal_name |-> meal_name_of(text),
          nutrition_text |-> nutrition_of(text),
          assessment_text |-> assessment_of(text),
          assigned_score |-> calculate_meal_score(assessment_of(text))]

\* `match.group(1).strip() if match else <placeholder>` for each field, then
\* calculate_meal_score(assessment_text)
checker_extract(text) ==
    [raised |-> "None",
     meal_name |-> meal_name_of(text),
     nutrition_text |-> nutrition_of(text),
     assessment_text |-> assessment_of(text),
     assigned_score |-> calculate_meal_score(assessment_of(text))]

MaxPieces == 3

\* A piece of an answer: a heading line (the heading, then the rest of its
\* line) and the lines below it, each line ended by a newline.
Piece(kind, heading, same_line, body) ==
    [kind |-> kind, heading |-> Chars(heading), same_line |-> Chars(same_line),
     body |-> Chars(body)]

AnalysisPieces ==
    << Piece("name", "## Meal Name", "", "Greek Salad\n"),
       Piece("name", "## Meal Name", " Cake", ""),
       Piece("name", "## meal name", "  ", ""),
       Piece("name", "## Meal Name", "", "\n"),
       Piece("nutrition", "## Estimated Nutrition", "", "Calories: 200\nFat: 9g\n"),
       Piece("nutrition", "## Estimated Nutrition", "", ""),
       Piece("assessment", "## Healthiness Assessment", "", "A healthy, low fat choice.\n"),
       Piece("assessment", "## HEALTHINESS ASSESSMENT", "", "High sugar; be cautious.\n\n"),
       Piece("other", "## Estimated Ingredients", "", "- lettuce\n"),
       Piece("other", "", "Here you go:", ""),
       Piece("other", "--- RECIPE START ---", "", "Meal Name:\nIngredients:\n"),
       Piece("other", "--- RECIPE END ---", "", ""),
       Piece("other", "## Healthiness Assess", "", "") >>

RenderPiece(p) == p.heading \o p.same_line \o <<"\n">> \o p.body

RenderPieces(parts) ==
    Concat([i \in 1..Len(parts) |-> RenderPiece(AnalysisPieces[parts[i]])])

InitExtract ==
    /\ pc = "start"
    /\ analysis_parts \in SeqsUpTo(1..Len(AnalysisPieces), MaxPieces)
    /\ analysis_text = RenderPieces(analysis_parts)
    /\ checker_result = NoValue
    /\ recipes = NoValue
    /\ response_parts = NoValue
    /\ text_response = NoValue
    /\ ScoreUnused
    /\ RuleUnused
    /\ AppUnused
    /\ RecommendUnused

\* Lines 504-516 of checker on the answer.
CallExtract ==
    /\ pc = "start"
    /\ checker_result' = checker_extract(analysis_text)
    /\ pc' = "extracted"
    /\ UNCHANGED <<analysis_parts, analysis_text, parse_vars, score_vars, rule_vars,
                   app_vars, recommend_vars>>

\* parse_multi_recipes on the same text.
CallParseAnalysis ==
    /\ pc = "start"
    /\ text_response' = analysis_text
    /\ recipes' = parse_multi_recipes(analysis_text)
    /\ pc' = "parsed"
    /\ UNCHANGED <<analysis_parts, analysis_text, checker_result, response_parts,
                   score_vars, rule_vars, app_vars, recommend_vars>>

NextExtract == CallExtract \/ CallParseAnalysis

SpecExtract == InitExtract /\ [][NextExtract]_vars

---------------------------------------------------------------------------
(* What the claims about the checker's extraction say, stated on the       *)
(* pieces the answer was put together from                                 *)

APiece(i) == AnalysisPieces[analysis_parts[i]]

HasKind(kind) == \E i \in 1..Len(analysis_parts) : APiece(i).kind = kind

FirstOfKind(kind) == Min({i \in 1..Len(analysis_parts) : APiece(i).kind = kind})

\* The text of pieces a to b.
RenderFrom(a, b) == Concat([i \in 1..(b - a + 1) |-> RenderPiece(APiece(a + i - 1))])

\* What follows a heading inside its own piece.
UnderHeading(p) == p.same_line \o <<"\n">> \o p.body

\* The name a "## Meal Name" piece gives: the rest of the heading line, or the
\* line below it; empty when the piece gives none.
NameGiven(p) == IF strip(p.same_line) # <<>> THEN strip(p.same_line) ELSE strip(p.body)

HasFilledName == HasKind("name") /\ NameGiven(APiece(FirstOfKind("name"))) # <<>>

\* The assessment pieces that follow the first nutrition piece.
AssessmentsAfterNutrition ==
    {i \in (FirstOfKind("nutrition") + 1)..Len(analysis_parts) :
        APiece(i).kind = "assessment"}

\* The text between the first nutrition heading and the next assessment
\* heading, or the end of the text.
ExpectedNutrition ==
    LET n == FirstOfKind("nutrition")
        e == IF AssessmentsAfterNutrition = {} THEN Len(analysis_parts)
             ELSE Min(AssessmentsAfterNutrition) - 1
    IN strip(UnderHeading(APiece(n)) \o RenderFrom(n + 1, e))

\* The text from the first assessment heading to the end of the text.
ExpectedAssessment ==
    LET a == FirstOfKind("assessment")
    IN strip(UnderHeading(APiece(a)) \o RenderFrom(a + 1, Len(analysis_parts)))

\* A nutrition section with nothing in it, its heading followed by the
\* assessment heading (C16 is about this case).
EmptyNutritionSection ==
    /\ HasKind("nutrition")
    /\ AssessmentsAfterNutrition # {}
    /\ ExpectedNutrition = <<>>

C15_MealNameIsRestOfHeadingLine ==
    (pc = "extracted" /\ HasKind("name")) =>
        checker_result.meal_name = strip(APiece(FirstOfKind("name")).same_line)

\* C16: for every answer in which the assessment heading follows the nutrition
\* heading, an empty nutrition section included, the nutrition text is the text
\* between the two headings: it holds neither the "## Healthiness Assessment"
\* heading nor any text after it.
C16_NutritionStopsAtAssessment ==
    (pc = "extracted" /\ HasKind("nutrition") /\ AssessmentsAfterNutrition # {}) =>
        /\ ~Occurs(Chars("## Healthiness Assessment"), checker_result.nutrition_text)
        /\ checker_result.nutrition_text = ExpectedNutrition

IsText(t) == DOMAIN t = 1..Len(t)

\* C17: on every text, malformed or truncated as it may be, the checker's
\* extraction raises nothing and gives three texts, the placeholder where a
\* heading is missing, and a score; parse_multi_recipes gives no record, the
\* fallback record, or records with a name and ingredients or instructions.
C17_ParsersTolerateAnyText ==
    /\ pc = "extracted" =>
          /\ checker_result.raised = "None"
          /\ IsText(checker_result.meal_name)
          /\ IsText(checker_result.nutrition_text)
          /\ IsText(checker_result.assessment_text)
          /\ checker_result.assigned_score \in Int
          /\ ~HasKind("name") =>
                checker_result.meal_name = Chars("Unknown Meal (Parsing Failed)")
          /\ ~HasKind("nutrition") =>
                checker_result.nutrition_text
                    = Chars("Nutrition info could not be extracted.")
          /\ ~HasKind("assessment") =>
                checker_result.assessment_text
                    = Chars("Assessment could not be extracted.")
    /\ pc = "parsed" =>
          \/ recipes = <<>>
          \/ recipes = <<[name |-> Chars("Recipe Details (Parsing Failed)"),
                          instructions |-> analysis_text]>>
          \/ \A i \in 1..Len(recipes) : Qualifies(recipes[i])

C17_Witness ==
    /\ pc = "extracted"
    /\ analysis_parts = <<11, 13>>
    /\ checker_result.raised = "None"
    /\ checker_result.meal_name = Chars("Unknown Meal (Parsing Failed)")
    /\ checker_result.nutrition_text = Chars("Nutrition info could not be extracted.")
    /\ checker_result.assessment_text = Chars("Assessment could not be extracted.")
    /\ checker_result.assigned_score = 1

---------------------------------------------------------------------------
(* The persistence functions, database.py                                  *)

\* bcrypt.hashpw and bcrypt.checkpw: a hash matches the password it was made of.
hashpw(password) == [bcrypt |-> password]
check_password(stored_hash, provided_password) == stored_hash.bcrypt = provided_password

\* SELECT * FROM users WHERE username = ?: the row's index in users, 0 for None.
get_user_by_username(username) ==
    IF \E i \in 1..Len(users) : users[i].username = username
    THEN CHOOSE i \in 1..Len(users) : users[i].username = username
    ELSE 0

\* The INSERT into a table whose username column is not UNIQUE.
add_user_no_unique(username, password, age, health_conditions) ==
    Append(users, [id |-> Len(users) + 1, username |-> username,
                   password_hash |-> hashpw(password), age |-> age,
                   health_conditions |-> health_conditions,
                   total_health_score |-> 0])

\* INSERT INTO users: the UNIQUE constraint on username raises IntegrityError,
\* which add_user answers with False, leaving the table as it was.
add_user(username, password, age, health_conditions) ==
    IF get_user_by_username(username) # 0 THEN users
    ELSE Append(users, [id |-> Len(users) + 1, username |-> username,
                        password_hash |-> hashpw(password), age |-> age,
                        health_conditions |-> health_conditions,
                        total_health_score |-> 0])

\* The INSERT taking the place of the user's latest row when there is one.
add_checked_meal_replace(user_id, meal_name, nutrition, assessment, assigned, image_filename) ==
    LET mine == {i \in 1..Len(checked_meals) : checked_meals[i].user_id = user_id}
        row(n) == [id |-> n, user_id |-> user_id, meal_name |-> meal_name,
                   estimated_nutrition |-> nutrition, health_assessment |-> assessment,
                   assigned_score |-> assigned, image_filename |-> image_filename]
    IN IF mine = {} THEN Append(checked_meals, row(Len(checked_meals) + 1))
       ELSE [checked_meals EXCEPT ![Max(mine)] = row(Max(mine))]

\* The UPDATE as a write of the points alone, what the score was before lost.
update_user_score_overwrite(user_id, points_to_add) ==
    [i \in 1..Len(users) |->
        IF users[i].id = user_id
        THEN [users[i] EXCEPT !.total_health_score = points_to_add]
        ELSE users[i]]

\* UPDATE users SET total_health_score = total_health_score + ? WHERE id = ?
update_user_score(user_id, points_to_add) ==
    [i \in 1..Len(users) |->
        IF users[i].id = user_id
        THEN [users[i] EXCEPT !.total_health_score = @ + points_to_add]
        ELSE users[i]]

\* INSERT INTO checked_meals (checked_at, the time of the insert, is the row's
\* place in the sequence)
add_checked_meal(user_id, meal_name, nutrition, assessment, assigned, image_filename) ==
    Append(checked_meals,
           [id |-> Len(checked_meals) + 1, user_id |-> user_id, meal_name |-> meal_name,
            estimated_nutrition |-> nutrition, health_assessment |-> assessment,
            assigned_score |-> assigned, image_filename |-> image_filename])

---------------------------------------------------------------------------
(* The routes, app.py 233-548                                              *)

MaxChecks == 2

Browsers == {"b1", "b2"}
Usernames == {"ann", "bob"}

\* What the vision model may answer: every heading; a meal to be cautious
\* about; no assessment heading.
AnalysisResults ==
    { Chars("## Meal Name\nGreek Salad\n\n## Estimated Ingredients\n- lettuce\n\n")
        \o Chars("## Estimated Nutrition\nCalories: 200\nFat: 9g\n\n")
        \o Chars("## Healthiness Assessment\nA healthy, low fat choice."),
      Chars("## Meal Name\nCake\n## Estimated Nutrition\nSugar: 40g\n")
        \o Chars("## Healthiness Assessment\nHigh sugar; be cautious."),
      Chars("## Meal Name\nSoup\n## Estimated Nutrition\nSodium: 300mg"),
      Chars("## Meal Name\nTea\n## Estimated Nutrition\nCalories: 2\n")
        \o Chars("## Healthiness Assessment\n") }

Idle == [pc |-> "idle"]

Init ==
    /\ pc = "app"
    /\ users = <<>>
    /\ checked_meals = <<>>
    /\ session = [b \in Browsers |-> 0]
    /\ request = [b \in Browsers |-> Idle]
    /\ checks_started = 0
    /\ ScoreUnused
    /\ RuleUnused
    /\ ParseUnused
    /\ RecommendUnused
    /\ ExtractUnused

pure_vars == <<pc, score_vars, rule_vars, parse_vars, recommend_vars, extract_vars>>

\* int(age_str) if age_str else None, and ValueError for a non-positive age.
parse_age(age_str) ==
    CASE age_str = "" -> PyNone
      [] age_str = "30" -> Num(30)
      [] OTHER -> [type |-> "ValueError", val |-> 0]

\* POST /signup up to the call of db.add_user: the form is checked, the
\* username looked up, the age parsed.
SignupPost(b, username, password, confirm_password, age_str) ==
    /\ request[b].pc = "idle"
    /\ IF \/ username = "" \/ password = "" \/ confirm_password = ""
          \/ password # confirm_password
          \/ get_user_by_username(username) # 0
          \/ parse_age(age_str).type = "ValueError"
       THEN UNCHANGED request                       \* flash, redirect to signup
       ELSE request' = [request EXCEPT ![b] =
                [pc |-> "add_user", username |-> username, password |-> password,
                 age |-> parse_age(age_str)]]
    /\ UNCHANGED <<users, checked_meals, session, checks_started, pure_vars>>

\* db.add_user and the flash that follows it: add_user returns True when the
\* row was inserted, False on IntegrityError and on any other sqlite3.Error.
SignupAddUser(b, sqlite_error) ==
    /\ request[b].pc = "add_user"
    /\ LET table == IF sqlite_error THEN users
                    ELSE add_user(request[b].username, request[b].password,
                                  request[b].age, <<>>)
       IN /\ users' = table
          /\ request' = [request EXCEPT ![b] =
                [pc |-> "signup_flash", username |-> request[b].username,
                 flash |-> IF table # users
                           THEN "Account created successfully! Please log in."
                           ELSE "An error occurred during signup. Please try again."]]
    /\ UNCHANGED <<checked_meals, session, checks_started, pure_vars>>

\* The redirect that ends POST /signup (to login on success, to signup if not).
SignupRedirect(b) ==
    /\ request[b].pc = "signup_flash"
    /\ request' = [request EXCEPT ![b] = Idle]
    /\ UNCHANGED <<users, checked_meals, session, checks_started, pure_vars>>

\* The decorator that lets every request through.
login_required_anyone(b) == TRUE

\* The decorator login_required: the route is entered when 'user_id' is in the
\* session, else the answer is a flash and the redirect to login.
login_required(b) == session[b] # 0

\* redirect(url_for('login', next=request.url))
LoginRedirect(route) == [pc |-> "redirect_login", next |-> route]

\* The redirect of login_required reaching the browser.
RedirectToLogin(b) ==
    /\ request[b].pc = "redirect_login"
    /\ request' = [request EXCEPT ![b] = Idle]
    /\ UNCHANGED <<users, checked_meals, session, checks_started, pure_vars>>

\* POST /login: the form is read.
LoginPost(b, username, password) ==
    /\ request[b].pc = "idle"
    /\ request' = [request EXCEPT ![b] =
             [pc |-> "login", username |-> username, password |-> password]]
    /\ UNCHANGED <<users, checked_meals, session, checks_started, pure_vars>>

\* The rest of POST /login: the user is looked up and the password checked;
\* the session is written when both succeed, else a flash and the redirect
\* back to login.
LoginCheckPassword(b) ==
    /\ request[b].pc = "login"
    /\ LET user == get_user_by_username(request[b].username)
       IN IF user # 0 /\ check_password(users[user].password_hash, request[b].password)
          THEN session' = [session EXCEPT ![b] = users[user].id]
          ELSE UNCHANGED session
    /\ request' = [request EXCEPT ![b] = Idle]
    /\ UNCHANGED <<users, checked_meals, checks_started, pure_vars>>

\* GET /logout
Logout(b) ==
    /\ request[b].pc = "idle"
    /\ session' = [session EXCEPT ![b] = 0]
    /\ UNCHANGED <<users, checked_meals, request, checks_started, pure_vars>>

\* Lines 504-516 on each answer the vision model may give.
analysed == [r \in AnalysisResults |-> checker_extract(r)]

\* The try block of checker from the AI call to the score (lines 499-517): an
\* exception of the call leaves it for the except block (535-539), which
\* flashes the error and makes it the analysis shown; else the locals are set.
checker_outcome(user_id, filename, ai_raises, analysis_result) ==
    IF ai_raises
    THEN [pc |-> "except", flash |-> "Could not analyze meal",
          analysis_result |-> "Error analyzing image"]
    ELSE [pc |-> "add_checked_meal",
          user_id |-> user_id,
          meal_name |-> analysed[analysis_result].meal_name,
          nutrition_text |-> analysed[analysis_result].nutrition_text,
          assessment_text |-> analysed[analysis_result].assessment_text,
          assigned_score |-> analysed[analysis_result].assigned_score,
          filename |-> filename,
          analysis_result |-> analysis_result]

\* POST /checker up to the call of db.add_checked_meal: login_required, the
\* upload checks, the AI call (which may raise), the extraction and the score.
CheckerPost(b, upload, ai_raises, analysis_result) ==
    /\ request[b].pc = "idle"
    /\ IF ~login_required(b)
       THEN /\ request' = [request EXCEPT ![b] = LoginRedirect("checker")]
            /\ UNCHANGED checks_started
       ELSE IF upload # "image.jpg"
       THEN UNCHANGED <<request, checks_started>>   \* flash, redirect to checker
       ELSE /\ checks_started < MaxChecks
            /\ checks_started' = checks_started + 1
            /\ request' = [request EXCEPT ![b] =
                     checker_outcome(session[b], upload, ai_raises, analysis_result)]
    /\ UNCHANGED <<users, checked_meals, session, pure_vars>>

\* The except block calling the vision model a second time.
CheckerRenderError_retry(b) ==
    /\ request[b].pc = "except"
    /\ checks_started' = checks_started + 1
    /\ request' = [request EXCEPT ![b] = Idle]
    /\ UNCHANGED <<users, checked_meals, session, pure_vars>>

\* The end of a POST /checker whose try block raised: checker.html is rendered
\* with the error as the analysis.
CheckerRenderError(b) ==
    /\ request[b].pc = "except"
    /\ request' = [request EXCEPT ![b] = Idle]
    /\ UNCHANGED <<users, checked_meals, session, checks_started, pure_vars>>

\* db.add_checked_meal: on sqlite3.Error it returns False, which checker
\* does not look at.
CheckerAddMeal(b, sqlite_error) ==
    /\ request[b].pc = "add_checked_meal"
    /\ checked_meals' =
          IF sqlite_error THEN checked_meals
          ELSE add_checked_meal(request[b].user_id, request[b].meal_name,
                                request[b].nutrition_text, request[b].assessment_text,
                                request[b].assigned_score, request[b].filename)
    /\ request' = [request EXCEPT ![b].pc = "update_user_score"]
    /\ UNCHANGED <<users, session, checks_started, pure_vars>>

\* db.update_user_score, likewise, and the rest of POST /checker.
CheckerUpdateScore(b, sqlite_error) ==
    /\ request[b].pc = "update_user_score"
    /\ users' = IF sqlite_error THEN users
                ELSE update_user_score(request[b].user_id, request[b].assigned_score)
    /\ request' = [request EXCEPT ![b] = Idle]
    /\ UNCHANGED <<checked_meals, session, checks_started, pure_vars>>

\* GET /: the user's row and the latest five checked meals are read (the
\* rows handed to the template are copies) and suggestions asked of the text
\* model; nothing is written.
IndexGet(b) ==
    /\ request[b].pc = "idle"
    /\ UNCHANGED vars

\* A request waiting for text_model.generate_content.
TextModel(route) == [pc |-> "text_model", route |-> route]

\* GET or POST /recommender: login_required, then for a POST the call of the
\* text model; a GET renders the empty page.
RecommenderRequest(b, method) ==
    /\ request[b].pc = "idle"
    /\ request' = [request EXCEPT ![b] =
             IF ~login_required(b) THEN LoginRedirect("recommender")
             ELSE IF method = "POST" THEN TextModel("recommender")
             ELSE Idle]
    /\ UNCHANGED <<users, checked_meals, session, checks_started, pure_vars>>

\* The rest of POST /recommender: the answer or the exception of the text
\* model, parse_multi_recipes and the page; neither table is touched.
RecommenderRender(b) ==
    /\ request[b] = TextModel("recommender")
    /\ request' = [request EXCEPT ![b] = Idle]
    /\ UNCHANGED <<users, checked_meals, session, checks_started, pure_vars>>

\* GET or POST /generator: login_required, then for a POST the call of the
\* text model.
GeneratorRequest(b, method) ==
    /\ request[b].pc = "idle"
    /\ request' = [request EXCEPT ![b] =
             IF ~login_required(b) THEN LoginRedirect("generator")
             ELSE IF method = "POST" THEN TextModel("generator")
             ELSE Idle]
    /\ UNCHANGED <<users, checked_meals, session, checks_started, pure_vars>>

\* The rest of POST /generator: the text of the answer, or the error, is
\* rendered; neither table is touched.
GeneratorRender(b) ==
    /\ request[b] = TextModel("generator")
    /\ request' = [request EXCEPT ![b] = Idle]
    /\ UNCHANGED <<users, checked_meals, session, checks_started, pure_vars>>

Next ==
    \E b \in Browsers :
        \/ IndexGet(b)
        \/ \E m \in {"GET", "POST"} : RecommenderRequest(b, m)
        \/ RecommenderRender(b)
        \/ \E m \in {"GET", "POST"} : GeneratorRequest(b, m)
        \/ GeneratorRender(b)
        \/ RedirectToLogin(b)
        \/ CheckerRenderError(b)
        \/ \E u \in Usernames \cup {""}, c \in {"pw", "typo"}, a \in {"30", "abc"} :
              SignupPost(b, u, "pw", c, a)
        \/ \E e \in BOOLEAN : SignupAddUser(b, e)
        \/ SignupRedirect(b)
        \/ \E u \in Usernames, p \in {"pw", "guess"} : LoginPost(b, u, p)
        \/ LoginCheckPassword(b)
        \/ Logout(b)
        \/ \E f \in {"", "notes.txt", "image.jpg"}, e \in BOOLEAN, r \in AnalysisResults :
              CheckerPost(b, f, e, r)
        \/ \E e \in BOOLEAN : CheckerAddMeal(b, e)
        \/ \E e \in BOOLEAN : CheckerUpdateScore(b, e)

Spec == Init /\ [][Next]_vars

---------------------------------------------------------------------------
(* Claims about the checker's two writes                                   *)

RECURSIVE SumOfRecords(_, _)
\* The sum of assigned_score over the first n stored records of one user.
SumOfRecords(user_id, n) ==
    IF n = 0 THEN 0
    ELSE SumOfRecords(user_id, n - 1)
         + (IF checked_meals[n].user_id = user_id
            THEN checked_meals[n].assigned_score ELSE 0)

NoCheckInProgress ==
    \A b \in Browsers : request[b].pc \notin {"add_checked_meal", "update_user_score"}

\* C1: in every state the checker requests can reach, the AI call, the append
\* of the record and the increment of the score each free to fail, each user's
\* cumulative health score is the sum of assigned_score over that user's stored
\* records.  It is stated here for the states between requests only, where a
\* request that has made one of its two writes and not yet the other cannot be
\* the reason for a difference.
C1_ScoreIsSumOfRecords ==
    NoCheckInProgress =>
        \A i \in 1..Len(users) :
            users[i].total_health_score = SumOfRecords(users[i].id, Len(checked_meals))

\* The routes with every write of the checker succeeding.
NextWritesSucceed ==
    \E b \in Browsers :
        \/ IndexGet(b)
        \/ \E m \in {"GET", "POST"} : RecommenderRequest(b, m)
        \/ RecommenderRender(b)
        \/ \E m \in {"GET", "POST"} : GeneratorRequest(b, m)
        \/ GeneratorRender(b)
        \/ RedirectToLogin(b)
        \/ CheckerRenderError(b)
        \/ \E u \in Usernames \cup {""}, c \in {"pw", "typo"}, a \in {"30", "abc"} :
              SignupPost(b, u, "pw", c, a)
        \/ \E e \in BOOLEAN : SignupAddUser(b, e)
        \/ SignupRedirect(b)
        \/ \E u \in Usernames, p \in {"pw", "guess"} : LoginPost(b, u, p)
        \/ LoginCheckPassword(b)
        \/ Logout(b)
        \/ \E f \in {"", "notes.txt", "image.jpg"}, e \in BOOLEAN, r \in AnalysisResults :
              CheckerPost(b, f, e, r)
        \/ CheckerAddMeal(b, FALSE)
        \/ CheckerUpdateScore(b, FALSE)

SpecWritesSucceed == Init /\ [][NextWritesSucceed]_vars

---------------------------------------------------------------------------
(* Claims about the history, the failing AI call and concurrent checks     *)

\* C18: whatever request is served (signup, login, logout, home page, checker,
\* recommender, generator), a stored record is neither changed nor removed:
\* the records of before are the first records of after, field for field.
C18_HistoryIsAppendOnly ==
    [][/\ Len(checked_meals') >= Len(checked_meals)
       /\ \A i \in 1..Len(checked_meals) : checked_meals'[i] = checked_meals[i]]_vars

C18_Witness ==
    /\ Len(checked_meals) = 2
    /\ checked_meals[1].user_id = checked_meals[2].user_id
    /\ checked_meals[1].id = 1
    /\ checked_meals[1].meal_name = Chars("Greek Salad")
    /\ checked_meals[2].meal_name = Chars("Cake")
    /\ \A b \in Browsers : session[b] = 0 /\ request[b].pc = "idle"

\* A step in which the AI call of b's checker request fails.
AICallFails(b) ==
    /\ request[b].pc = "idle"
    /\ request'[b].pc = "except"

\* C19: when the AI call of a checker request fails, the error is what the
\* caller is shown, the AI was called once for the request and is not called
\* again, no record is appended and no score is changed, neither in the step
\* of the failure nor in what is left of the request.
C19_AIFailureIsSurfacedOnce ==
    [][\A b \in Browsers :
          /\ AICallFails(b) =>
                /\ request'[b].flash = "Could not analyze meal"
                /\ request'[b].analysis_result = "Error analyzing image"
                /\ checks_started' = checks_started + 1
                /\ checked_meals' = checked_meals
                /\ users' = users
          /\ (request[b].pc = "except" /\ request'[b] # request[b]) =>
                /\ request'[b].pc = "idle"
                /\ checks_started' = checks_started
                /\ checked_meals' = checked_meals
                /\ users' = users]_vars

C19_Witness ==
    \E b \in Browsers :
        /\ request[b].pc = "except"
        /\ request[b].analysis_result = "Error analyzing image"
        /\ session[b] # 0
        /\ checks_started = 1
        /\ checked_meals = <<>>
        /\ \A i \in 1..Len(users) : users[i].total_health_score = 0

RECURSIVE SumOfPending(_, _)
\* The assigned scores of the requests of S that have stored their record and
\* have their update of the user's score still to do.
SumOfPending(user_id, S) ==
    IF S = {} THEN 0
    ELSE LET b == CHOOSE x \in S : TRUE
         IN (IF request[b].pc = "update_user_score" /\ request[b].user_id = user_id
             THEN request[b].assigned_score ELSE 0)
            + SumOfPending(user_id, S \ {b})

\* C20: with every write succeeding, and the checker requests of one user
\* interleaved in any way, the user's score is the sum of the assigned scores
\* of the requests that have made their update (the score starts at 0): with
\* the updates still to come it is the sum over all the user's records, and so
\* it is when no request is in progress.
C20_NoScoreUpdateIsLost ==
    \A i \in 1..Len(users) :
        /\ users[i].total_health_score + SumOfPending(users[i].id, Browsers)
              = SumOfRecords(users[i].id, Len(checked_meals))
        /\ NoCheckInProgress =>
              users[i].total_health_score = SumOfRecords(users[i].id, Len(checked_meals))

\* Two requests of one user interleaved: one stored its record first and has
\* its update still to do, the other has stored its record and made its update.
C20_Witness ==
    \E b1, b2 \in Browsers :
        /\ request[b1].pc = "idle"
        /\ request[b2].pc = "update_user_score"
        /\ Len(checked_meals) = 2
        /\ checked_meals[1].user_id = request[b2].user_id
        /\ checked_meals[2].user_id = request[b2].user_id
        /\ checked_meals[1].assigned_score = request[b2].assigned_score
        /\ checked_meals[2].assigned_score # request[b2].assigned_score
        /\ users[get_user_by_username("ann")].id = request[b2].user_id
        /\ users[get_user_by_username("ann")].total_health_score
              = checked_meals[2].assigned_score

---------------------------------------------------------------------------
(* Claims about signup, the placeholder's score and the login requirement  *)

UsernamesAreUnique ==
    \A i, j \in 1..Len(users) : users[i].username = users[j].username => i = j

SignupSucceeded == "Account created successfully! Please log in."
SignupFailed == "An error occurred during signup. Please try again."

\* C21: whatever the interleaving of signups, two of them with one username
\* that both pass the existence check before either inserts included, no two
\* stored accounts share a username; a signup that reports success has created
\* the one account of its username, and a signup that reports the error has
\* created none, so of two competing signups at most one reports success.
C21_UsernamesStayUnique ==
    /\ []UsernamesAreUnique
    /\ [][\A b \in Browsers :
             (request[b].pc = "add_user" /\ request'[b].pc = "signup_flash") =>
                /\ request'[b].flash \in {SignupSucceeded, SignupFailed}
                /\ request'[b].flash = SignupSucceeded =>
                      /\ get_user_by_username(request[b].username) = 0
                      /\ Len(users') = Len(users) + 1
                      /\ users'[Len(users')].username = request[b].username
                      /\ SubSeq(users', 1, Len(users)) = users
                /\ request'[b].flash = SignupFailed => users' = users
                /\ get_user_by_username(request[b].username) # 0 =>
                      request'[b].flash = SignupFailed]_vars

\* Two signups with one username, both past the existence check: one has
\* created the account and ended, the other is told of the error.
C21_Witness ==
    \E b1, b2 \in Browsers :
        /\ b1 # b2
        /\ request[b1].pc = "signup_flash"
        /\ request[b1].flash = SignupSucceeded
        /\ request[b2].pc = "signup_flash"
        /\ request[b2].flash = SignupFailed
        /\ request[b1].username = request[b2].username
        /\ Len(users) = 1
        /\ users[1].username = request[b1].username

\* The phrase stands in the text at place i, case apart.
OccursAt(phrase, text, i) ==
    /\ i + Len(phrase) - 1 <= Len(text)
    /\ \A j \in 1..Len(phrase) : SameLetter(text[i + j - 1], phrase[j])

\* The answer has no "## Healthiness Assessment" heading.
NoAssessmentHeading(text) == ~Occurs(Chars("## Healthiness Assessment"), text)

\* The answer has the heading, and nothing but white space after the first one.
NothingUnderAssessmentHeading(text) ==
    \E i \in 1..Len(text) :
        /\ OccursAt(Chars("## Healthiness Assessment"), text, i)
        /\ \A k \in 1..(i - 1) : ~OccursAt(Chars("## Healthiness Assessment"), text, k)
        /\ \A k \in (i + 25)..Len(text) : text[k] \in {" ", "\n", "\t", "\r"}

\* The answers of the model that have each of the two shapes.
AnswersWithoutHeading == {r \in AnalysisResults : NoAssessmentHeading(r)}

AnswersWithEmptyAssessment ==
    {r \in AnalysisResults : NothingUnderAssessmentHeading(r)}

\* The record b's request stores, and the change it makes to its user's score.
StoresRecord(b, assessment, assigned) ==
    (request[b].pc = "add_checked_meal" /\ request'[b].pc = "update_user_score") =>
        /\ Len(checked_meals') = Len(checked_meals) + 1
        /\ checked_meals'[Len(checked_meals')].health_assessment = assessment
        /\ checked_meals'[Len(checked_meals')].assigned_score = assigned

RaisesScoreBy(b, assigned) ==
    (request[b].pc = "update_user_score" /\ request'[b].pc = "idle") =>
        \A i \in 1..Len(users) :
            users'[i].total_health_score
                = users[i].total_health_score
                  + (IF users[i].id = request[b].user_id THEN assigned ELSE 0)

\* C22: when the answer has no "## Healthiness Assessment" heading, the record
\* stored has the assessment "Assessment could not be extracted." and the
\* assigned score 1, and the user's score rises by 1; when the heading is there
\* with no text after it, the assessment is the empty text and the score is 0.
C22_PlaceholderIsScored ==
    [][\A b \in Browsers :
          /\ (request[b].pc \in {"add_checked_meal", "update_user_score"}
              /\ request[b].analysis_result \in AnswersWithoutHeading) =>
                /\ StoresRecord(b, Chars("Assessment could not be extracted."), 1)
                /\ RaisesScoreBy(b, 1)
          /\ (request[b].pc \in {"add_checked_meal", "update_user_score"}
              /\ request[b].analysis_result \in AnswersWithEmptyAssessment) =>
                /\ StoresRecord(b, <<>>, 0)
                /\ RaisesScoreBy(b, 0)]_vars

C22_Witness ==
    /\ \A b \in Browsers : request[b].pc = "idle"
    /\ Len(checked_meals) = 2
    /\ checked_meals[1].health_assessment = Chars("Assessment could not be extracted.")
    /\ checked_meals[1].assigned_score = 1
    /\ checked_meals[2].health_assessment = <<>>
    /\ checked_meals[2].assigned_score = 0
    /\ checked_meals[1].user_id = checked_meals[2].user_id
    /\ \E i \in 1..Len(users) :
          users[i].id = checked_meals[1].user_id /\ users[i].total_health_score = 1

\* A step that is a request of b to the checker, the recommender or the
\* generator.
ProtectedRequest(b) ==
    \/ \E f \in {"", "notes.txt", "image.jpg"}, e \in BOOLEAN, r \in AnalysisResults :
          CheckerPost(b, f, e, r)
    \/ \E m \in {"GET", "POST"} : RecommenderRequest(b, m)
    \/ \E m \in {"GET", "POST"} : GeneratorRequest(b, m)

\* Neither table is written and no call of a model is begun for b.
NothingDoneFor(b) ==
    /\ users' = users
    /\ checked_meals' = checked_meals
    /\ checks_started' = checks_started
    /\ request'[b].pc \notin {"text_model", "except", "add_checked_meal",
                              "update_user_score"}

\* C26: a request to the checker, the recommender or the generator made while
\* the session holds no user_id is answered with the redirect to login, and
\* neither it nor the redirect calls a model, appends a record or changes a
\* score; a session gains a user_id only in a login whose username exists and
\* whose password matches the stored hash, and the user_id is that user's.
C26_ProtectedRoutesNeedALogin ==
    [][\A b \in Browsers :
          /\ (session[b] = 0 /\ ProtectedRequest(b)) =>
                /\ request'[b].pc = "redirect_login"
                /\ request'[b].next \in {"checker", "recommender", "generator"}
                /\ session'[b] = 0
                /\ NothingDoneFor(b)
          /\ (session[b] = 0 /\ request[b].pc = "idle" /\ request'[b] # request[b]) =>
                /\ request'[b].pc \in {"redirect_login", "add_user", "login"}
                /\ NothingDoneFor(b)
          /\ (request[b].pc = "redirect_login" /\ request'[b] # request[b]) =>
                /\ request'[b] = Idle
                /\ session'[b] = session[b]
                /\ NothingDoneFor(b)
          /\ (session'[b] # 0 /\ session'[b] # session[b]) =>
                /\ request[b].pc = "login"
                /\ \E i \in 1..Len(users) :
                      /\ users[i].username = request[b].username
                      /\ users[i].password_hash = hashpw(request[b].password)
                      /\ session'[b] = users[i].id]_vars

C26_Witness ==
    /\ \A b \in Browsers : session[b] = 0
    /\ Len(checked_meals) = 1
    /\ request["b1"] = [pc |-> "redirect_login", next |-> "checker"]
    /\ request["b2"] = [pc |-> "login", username |-> "ann", password |-> "guess"]
    /\ \E i \in 1..Len(users) : users[i].username = "ann"

====
